---- MODULE Spec2Model ----
(***************************************************************************)
(* Hierarchical requirement resolution of rcm-schema.                      *)
(*                                                                         *)
(* RequirementResolver (rcm_schema/requirement_resolver.py) resolves the   *)
(* effective field requirements of an (endpoint, task type) by folding the *)
(* organization's policies over the payer's base requirement; migration    *)
(* 003 (alembic/versions/003_add_hierarchical_requirements_system.py)      *)
(* defines the tables, the materialized view effective_requirements that   *)
(* serves as the fast path, and the triggers that refresh it.              *)
(*                                                                         *)
(* JSON values are modelled as follows: an array of field names is a       *)
(* sequence of strings, an object keyed by field name is a function whose  *)
(* domain is the set of keys, SQL NULL and Python None are the value Null  *)
(* wrapped as <<>> (absent) against <<v>> (present) where a column or a    *)
(* key may miss.  A policy's field_changes["field_rules"] is an object for *)
(* add and override and a list of names for remove; it carries its JSON    *)
(* kind so that both shapes live in one set.                               *)
(***************************************************************************)
EXTENDS Integers, Sequences, FiniteSets, TLC

VARIABLES
    \* --- the store and the resolver's calls on it ---
    payer_requirement,      \* table payer_requirement: a set of rows
    org_requirement_policy, \* table org_requirement_policy: a set of rows
    effective_requirements, \* the materialized view, as populated last
    today,                  \* the calendar date: date.today(), CURRENT_DATE
    result,                 \* the last call of the resolver and what it returned
    \* --- the schema and the writers of the requirement tables ---
    schema,                 \* how the database was built: "alembic" or "create_all"
    requirement_changelog,  \* table requirement_changelog, in insertion order
    txn,                    \* each writer's open transaction
    next_id,                \* the next row id gen_random_uuid() / uuid4 hands out
    history,                \* the committed row changes, in commit order
    \* --- the fold of _compute_requirements / one call of _apply_policy ---
    base,               \* the working set the fold started from
    prev,               \* the working set before the policy folded last
    policy,             \* the loop variable: the policy folded last
    applied,            \* the policy types folded so far, in order
    required_fields,    \* working set: required_fields
    optional_fields,    \* working set: optional_fields
    field_rules,        \* working set: field_rules
    \* --- the objects of one session and the resolutions running in it ---
    objects,            \* the lists and dicts in memory, by the cell that holds them
    calls               \* each caller's resolution in progress

storeVars == <<payer_requirement, org_requirement_policy, effective_requirements, today, result>>
foldVars == <<base, prev, policy, applied, required_fields, optional_fields, field_rules>>
writeVars == <<schema, requirement_changelog, txn, next_id, history>>
sessionVars == <<objects, calls>>
vars == <<storeVars, foldVars, writeVars, sessionVars>>

-----------------------------------------------------------------------------
(* Universes *)

Fields == {"member_id", "auth_number"}

\* Every duplicate-free list over Fields, and one list with a repeated name.
FieldLists ==
    {<<>>, <<"member_id">>, <<"auth_number">>,
     <<"member_id", "auth_number">>, <<"auth_number", "member_id">>,
     <<"member_id", "member_id">>}

RuleSpecs == {[min_length |-> 3], [min_length |-> 5]}

\* Every object keyed by field names.
RuleMaps == UNION {[S -> RuleSpecs] : S \in SUBSET Fields}

JsonDict(m) == [kind |-> "dict", value |-> m]
JsonList(l) == [kind |-> "list", value |-> l]

Range(s) == {s[i] : i \in 1..Len(s)}

\* PolicyType (requirement_resolver.py) and chk_policy_type (migration 003).
PolicyTypes == {"add", "remove", "override"}

\* The names a JSON value yields when iterated: a list's elements, a dict's keys.
IterNames(j) == IF j.kind = "list" THEN Range(j.value) ELSE DOMAIN j.value

-----------------------------------------------------------------------------
(* _apply_policy *)

\* field_changes: any subset of the three keys.
ChangesOf(rq, op, rl) ==
    [k \in (IF rq = <<>> THEN {} ELSE {"required_fields"})
           \cup (IF op = <<>> THEN {} ELSE {"optional_fields"})
           \cup (IF rl = <<>> THEN {} ELSE {"field_rules"}) |->
        CASE k = "required_fields" -> rq[1]
          [] k = "optional_fields" -> op[1]
          [] OTHER -> rl[1]]

Opt(S) == {<<>>} \cup {<<x>> : x \in S}

\* for field in changes["required_fields"]:
\*     if field not in required_fields: required_fields.append(field)
RECURSIVE AppendMissing(_, _)
AppendMissing(acc, new) ==
    IF new = <<>> THEN acc
    ELSE AppendMissing(IF Head(new) \in Range(acc) THEN acc ELSE Append(acc, Head(new)),
                       Tail(new))

\* for field in changes["optional_fields"]:
\*     if field not in optional_fields and field not in required_fields: ...append
RECURSIVE AppendOptional(_, _, _)
AppendOptional(acc, req, new) ==
    IF new = <<>> THEN acc
    ELSE AppendOptional(IF Head(new) \in Range(acc) \/ Head(new) \in Range(req)
                            THEN acc ELSE Append(acc, Head(new)),
                        req, Tail(new))

\* [f for f in fields if f not in names]
Without(fields, names) == SelectSeq(fields, LAMBDA f : f \notin names)

\* dict.update
DictUpdate(d, u) ==
    [f \in DOMAIN d \cup DOMAIN u |-> IF f \in DOMAIN u THEN u[f] ELSE d[f]]

\* for field in names: d.pop(field, None)
DictPopAll(d, names) == [f \in DOMAIN d \ names |-> d[f]]

\* Mutant: optional names are screened against the required list as it was
\* before this policy's own required_fields were appended.
ApplyAdd_StaleRequired(r, o, fr, changes) ==
    LET r2 == IF "required_fields" \in DOMAIN changes
                 THEN AppendMissing(r, changes["required_fields"]) ELSE r
        o2 == IF "optional_fields" \in DOMAIN changes
                 THEN AppendOptional(o, r, changes["optional_fields"]) ELSE o
        fr2 == IF "field_rules" \in DOMAIN changes
                 THEN DictUpdate(fr, changes["field_rules"].value) ELSE fr
    IN <<r2, o2, fr2>>

\* Mutant: add replaces the required list by the policy's list.
ApplyAdd_ReplacesRequired(r, o, fr, changes) ==
    IF "required_fields" \in DOMAIN changes
        THEN <<changes["required_fields"], o, fr>> ELSE <<r, o, fr>>

ApplyAdd(r, o, fr, changes) ==
    LET r2 == IF "required_fields" \in DOMAIN changes
                 THEN AppendMissing(r, changes["required_fields"]) ELSE r
        o2 == IF "optional_fields" \in DOMAIN changes
                 THEN AppendOptional(o, r2, changes["optional_fields"]) ELSE o
        fr2 == IF "field_rules" \in DOMAIN changes
                 THEN DictUpdate(fr, changes["field_rules"].value) ELSE fr
    IN <<r2, o2, fr2>>

\* Mutant: a name removed from required_fields loses its rule as well.
ApplyRemove_DropsRules(r, o, fr, changes) ==
    LET r2 == IF "required_fields" \in DOMAIN changes
                 THEN Without(r, Range(changes["required_fields"])) ELSE r
        o2 == IF "optional_fields" \in DOMAIN changes
                 THEN Without(o, Range(changes["optional_fields"])) ELSE o
        fr1 == IF "required_fields" \in DOMAIN changes
                 THEN DictPopAll(fr, Range(changes["required_fields"])) ELSE fr
        fr2 == IF "field_rules" \in DOMAIN changes
                 THEN DictPopAll(fr1, IterNames(changes["field_rules"])) ELSE fr1
    IN <<r2, o2, fr2>>

\* Mutant: remove keeps the listed names and appends the ones that miss.
ApplyRemove_AppendsRequired(r, o, fr, changes) ==
    IF "required_fields" \in DOMAIN changes
        THEN <<AppendMissing(r, changes["required_fields"]), o, fr>> ELSE <<r, o, fr>>

ApplyRemove(r, o, fr, changes) ==
    LET r2 == IF "required_fields" \in DOMAIN changes
                 THEN Without(r, Range(changes["required_fields"])) ELSE r
        o2 == IF "optional_fields" \in DOMAIN changes
                 THEN Without(o, Range(changes["optional_fields"])) ELSE o
        fr2 == IF "field_rules" \in DOMAIN changes
                 THEN DictPopAll(fr, IterNames(changes["field_rules"])) ELSE fr
    IN <<r2, o2, fr2>>

\* Mutant: "complete replacement" taken literally, a key the policy does not
\* carry empties its component.
ApplyOverride_ReplacesAll(r, o, fr, changes) ==
    LET r2 == IF "required_fields" \in DOMAIN changes
                 THEN changes["required_fields"] ELSE <<>>
        o2 == IF "optional_fields" \in DOMAIN changes
                 THEN changes["optional_fields"] ELSE <<>>
        fr2 == IF "field_rules" \in DOMAIN changes
                 THEN changes["field_rules"].value ELSE [f \in {} |-> <<>>]
    IN <<r2, o2, fr2>>

ApplyOverride(r, o, fr, changes) ==
    LET r2 == IF "required_fields" \in DOMAIN changes
                 THEN changes["required_fields"] ELSE r
        o2 == IF "optional_fields" \in DOMAIN changes
                 THEN changes["optional_fields"] ELSE o
        fr2 == IF "field_rules" \in DOMAIN changes
                 THEN changes["field_rules"].value ELSE fr
    IN <<r2, o2, fr2>>

_apply_policy(r, o, fr, p) ==
    CASE p.policy_type = "add" -> ApplyAdd(r, o, fr, p.field_changes)
      [] p.policy_type = "remove" -> ApplyRemove(r, o, fr, p.field_changes)
      [] p.policy_type = "override" -> ApplyOverride(r, o, fr, p.field_changes)
      [] OTHER -> <<r, o, fr>>

-----------------------------------------------------------------------------
(* The store: tables of migration 003 and the resolver's queries on them.  *)

Null == <<>>
Some(x) == <<x>>

Orgs == {"orgA", "orgB"}
PortalTypeIds == {1, 2}
\* The rows of table task_type.
TaskTypes == {"eligibility", "claim_status"}

\* The rows of table integration_endpoint: one endpoint per organization,
\* of different portal types.
integration_endpoint ==
    {[portal_id |-> 1, org_id |-> "orgA", portal_type_id |-> 1],
     [portal_id |-> 2, org_id |-> "orgB", portal_type_id |-> 2]}

PortalIds == {ie.portal_id : ie \in integration_endpoint}

MaxDate == 2
MaxVersion == 2
Dates == 1..MaxDate
Versions == 1..MaxVersion

RequirementSet(portal, task, r, o, fr, cref, src) ==
    [portal_id |-> portal.portal_id, task_type_id |-> task, org_id |-> portal.org_id,
     portal_type_id |-> portal.portal_type_id, required_fields |-> r,
     optional_fields |-> o, field_rules |-> fr, compliance_ref |-> cref, source |-> src]

EmptyRules == [f \in {} |-> [min_length |-> 0]]

\* effective_date = as_of_date or date.today()
EffectiveDate(as_of_date, now) == IF as_of_date = Null THEN now ELSE as_of_date[1]

\* Mutant: the newest version wins whatever its effective date.
PayerReqQuery_IgnoresDate(rows, ptype, task, d) ==
    LET elig == {r \in rows : r.portal_type_id = ptype /\ r.task_type_id = task}
    IN IF elig = {} THEN Null
       ELSE Some(CHOOSE r \in elig : \A q \in elig : q.version <= r.version)

\* select(PayerRequirement).where(portal_type_id, task_type_id,
\*   effective_date <= effective_date).order_by(version.desc()).limit(1);
\* scalar_one_or_none().  uq_payer_requirement_portal_task_version makes the
\* versions of one (portal type, task type) distinct.
PayerReqQuery(rows, ptype, task, d) ==
    LET elig == {r \in rows : /\ r.portal_type_id = ptype
                              /\ r.task_type_id = task
                              /\ r.effective_date <= d}
    IN IF elig = {} THEN Null
       ELSE Some(CHOOSE r \in elig : \A q \in elig : q.version <= r.version)

\* Mutant: the active flag is not part of the filter.
PolicyFilter_IgnoresActive(rows, portal, task) ==
    {p \in rows : /\ p.org_id = portal.org_id
                  /\ p.task_type_id = task
                  /\ \/ p.portal_type_id = Null
                     \/ p.portal_type_id = Some(portal.portal_type_id)}

\* Mutant: the policies of every organization are selected.
PolicyFilter_IgnoresOrg(rows, portal, task) ==
    {p \in rows : /\ p.task_type_id = task
                  /\ p.active
                  /\ \/ p.portal_type_id = Null
                     \/ p.portal_type_id = Some(portal.portal_type_id)}

\* where(org_id == portal.org_id, task_type_id == task_type_id, active == True,
\*       or_(portal_type_id.is_(None), portal_type_id == portal.portal_type_id))
PolicyFilter(rows, portal, task) ==
    {p \in rows : /\ p.org_id = portal.org_id
                  /\ p.task_type_id = task
                  /\ p.active
                  /\ \/ p.portal_type_id = Null
                     \/ p.portal_type_id = Some(portal.portal_type_id)}

\* Every listing of the set S.
Listings(S) ==
    {s \in [1..Cardinality(S) -> S] : \A i, j \in 1..Cardinality(S) : i # j => s[i] # s[j]}

\* Mutant: ORDER BY version DESC.
OrderByVersion_Desc(S) ==
    {s \in Listings(S) : \A i, j \in 1..Len(s) : i < j => s[i].version >= s[j].version}

\* .order_by(OrgRequirementPolicy.version): every listing in ascending version
\* order; rows of equal version come in an order the database chooses.
OrderByVersion(S) ==
    {s \in Listings(S) : \A i, j \in 1..Len(s) : i < j => s[i].version <= s[j].version}

\* for policy in policies: ... = self._apply_policy(...)
RECURSIVE ApplyAll(_, _)
ApplyAll(ws, policies) ==
    IF policies = <<>> THEN ws
    ELSE LET out == _apply_policy(ws.required_fields, ws.optional_fields,
                                  ws.field_rules, Head(policies))
         IN ApplyAll([required_fields |-> out[1], optional_fields |-> out[2],
                      field_rules |-> out[3]], Tail(policies))

\* Mutant: without a payer requirement the result stays empty.
StartFrom_SkipsPolicies(payer_req, policies) ==
    IF payer_req # Null
        THEN ApplyAll([required_fields |-> payer_req[1].required_fields,
                       optional_fields |-> payer_req[1].optional_fields,
                       field_rules |-> payer_req[1].field_rules], policies)
        ELSE [required_fields |-> <<>>, optional_fields |-> <<>>, field_rules |-> EmptyRules]

\* "Start with payer requirements or empty", then the fold.
StartFrom(payer_req, policies) ==
    ApplyAll(IF payer_req # Null
                THEN [required_fields |-> payer_req[1].required_fields,
                      optional_fields |-> payer_req[1].optional_fields,
                      field_rules |-> payer_req[1].field_rules]
                ELSE [required_fields |-> <<>>, optional_fields |-> <<>>,
                      field_rules |-> EmptyRules],
             policies)

Endpoint(portal_id) == CHOOSE ie \in integration_endpoint : ie.portal_id = portal_id

\* The RequirementSets _compute_requirements may return on the given tables:
\* one for each order in which the policy query may list its rows.
_compute_requirements(payer_rows, policy_rows, now, portal_id, task_type_id, as_of_date) ==
    LET portal == Endpoint(portal_id)
        payer_req == PayerReqQuery(payer_rows, portal.portal_type_id, task_type_id,
                                   EffectiveDate(as_of_date, now))
    IN {LET ws == StartFrom(payer_req, policies)
        IN RequirementSet(portal, task_type_id, ws.required_fields, ws.optional_fields,
                          ws.field_rules,
                          IF payer_req # Null THEN payer_req[1].compliance_ref ELSE Null,
                          "computed") :
          policies \in OrderByVersion(PolicyFilter(policy_rows, portal, task_type_id))}

-----------------------------------------------------------------------------
(* The materialized view effective_requirements. *)

JsonError == [kind |-> "error", value |-> <<>>]

\* jsonb_merge_requirements(base_fields, policy_type, policy_fields): the
\* arguments and the result are JSON values or NULL.  base || policy is NULL
\* when either side is; jsonb_agg over no row is NULL; jsonb_array_elements
\* of NULL yields no row and of an object raises.
jsonb_merge_requirements(base_fields, policy_type, policy_fields) ==
    CASE policy_type = "add" ->
            IF base_fields = Null \/ policy_fields = Null THEN Null
            ELSE IF base_fields[1].kind = "list"
                 THEN Some(JsonList(base_fields[1].value \o policy_fields[1].value))
                 ELSE Some(JsonDict(DictUpdate(base_fields[1].value, policy_fields[1].value)))
      [] policy_type = "remove" ->
            IF base_fields = Null THEN Null
            ELSE IF base_fields[1].kind # "list" THEN Some(JsonError)
            ELSE LET gone == IF policy_fields = Null THEN {}
                             ELSE Range(policy_fields[1].value)
                     kept == Without(base_fields[1].value, gone)
                 IN IF kept = <<>> THEN Null ELSE Some(JsonList(kept))
      [] policy_type = "override" -> policy_fields
      [] OTHER -> base_fields

Coalesce(a, b, c) == IF a # Null THEN a ELSE IF b # Null THEN b ELSE c

\* WITH latest_payer_requirements: DISTINCT ON (portal_type_id, task_type_id)
\* ... WHERE effective_date <= CURRENT_DATE ORDER BY ..., version DESC, as
\* LEFT JOINed to (endpoint, task type).
latest_payer_requirements(rows, ptype, task, current_date) ==
    LET elig == {r \in rows : /\ r.portal_type_id = ptype
                              /\ r.task_type_id = task
                              /\ r.effective_date <= current_date}
    IN IF elig = {} THEN Null
       ELSE Some(CHOOSE r \in elig : \A q \in elig : q.version <= r.version)

\* WITH org_policies: WHERE op.active = TRUE
org_policies(rows) == {op \in rows : op.active}

\* The orders in which ORDER BY op.version DESC may list the active policies.
ViewOrders(rows) ==
    {s \in Listings(org_policies(rows)) :
        \A i, j \in 1..Len(s) : i < j => s[i].version >= s[j].version}

\* FROM org_policies op WHERE op.org_id = ie.org_id AND op.task_type_id =
\* tt.task_type_id AND (op.portal_type_id IS NULL OR op.portal_type_id =
\* ie.portal_type_id) ORDER BY op.version DESC LIMIT 1
TopPolicy(ord, ie, tt) ==
    LET hits == {i \in 1..Len(ord) :
                    /\ ord[i].org_id = ie.org_id
                    /\ ord[i].task_type_id = tt
                    /\ \/ ord[i].portal_type_id = Null
                       \/ ord[i].portal_type_id = Some(ie.portal_type_id)}
    IN IF hits = {} THEN Null
       ELSE Some(ord[CHOOSE i \in hits : \A j \in hits : i <= j])

\* op.field_changes->'key': NULL when the key misses.
ChangeJson(op, key) ==
    IF key \notin DOMAIN op.field_changes THEN Null
    ELSE IF key = "field_rules" THEN Some(op.field_changes[key])
    ELSE Some(JsonList(op.field_changes[key]))

\* One column of the view: COALESCE((SELECT jsonb_merge_requirements(lpr.col,
\* op.policy_type, op.field_changes->'col') ...), lpr.col, default).
ViewColumn(lpr_col, top, key, default) ==
    Coalesce(IF top = Null THEN Null
             ELSE jsonb_merge_requirements(lpr_col, top[1].policy_type,
                                           ChangeJson(top[1], key)),
             lpr_col, Some(default))

\* One row of SELECT ... FROM integration_endpoint ie CROSS JOIN task_type tt
\* LEFT JOIN latest_payer_requirements lpr.
ViewRow(payer_rows, ord, current_date, ie, tt) ==
    LET lpr == latest_payer_requirements(payer_rows, ie.portal_type_id, tt, current_date)
        top == TopPolicy(ord, ie, tt)
    IN [portal_id |-> ie.portal_id, org_id |-> ie.org_id,
        portal_type_id |-> ie.portal_type_id, task_type_id |-> tt,
        required_fields |->
            ViewColumn(IF lpr = Null THEN Null ELSE Some(JsonList(lpr[1].required_fields)),
                       top, "required_fields", JsonList(<<>>))[1],
        optional_fields |->
            ViewColumn(IF lpr = Null THEN Null ELSE Some(JsonList(lpr[1].optional_fields)),
                       top, "optional_fields", JsonList(<<>>))[1],
        field_rules |->
            ViewColumn(IF lpr = Null THEN Null ELSE Some(JsonDict(lpr[1].field_rules)),
                       top, "field_rules", JsonDict(EmptyRules))[1],
        compliance_ref |-> IF lpr = Null THEN Null ELSE lpr[1].compliance_ref]

ViewKeys == PortalIds \X TaskTypes

\* The view's rows, keyed by its unique index (portal_id, task_type_id).
ViewQuery(payer_rows, ord, current_date) ==
    [k \in ViewKeys |-> ViewRow(payer_rows, ord, current_date, Endpoint(k[1]), k[2])]

\* The query raises when a column's merge does.
ViewRaises(rows) ==
    \E k \in DOMAIN rows :
        \/ rows[k].required_fields.kind = "error"
        \/ rows[k].optional_fields.kind = "error"
        \/ rows[k].field_rules.kind = "error"

-----------------------------------------------------------------------------
(* The fold machine: the loop of _compute_requirements over its policies.  *)

\* field_rules values a policy of the given type carries: an object, or, for
\* remove, also a list of names.
RuleChanges(t) ==
    {JsonDict(m) : m \in RuleMaps}
        \cup (IF t = "remove" THEN {JsonList(l) : l \in FieldLists} ELSE {})

PoliciesOfType(t) ==
    {[policy_type |-> t, field_changes |-> ChangesOf(rq, op, rl)] :
        rq \in Opt(FieldLists), op \in Opt(FieldLists), rl \in Opt(RuleChanges(t))}

Policies == UNION {PoliciesOfType(t) : t \in PolicyTypes}

NoPolicy == [policy_type |-> "none", field_changes |-> ChangesOf(<<>>, <<>>, <<>>)]

WorkingSet(r, o, fr) == [required_fields |-> r, optional_fields |-> o, field_rules |-> fr]

Bases == {WorkingSet(r, o, fr) : r \in FieldLists, o \in FieldLists, fr \in RuleMaps}

\* The store of a freshly migrated database, on which no call was made.
NoCall == [op |-> "none"]

Writers == {"w1", "w2"}

NoTxn == [pc |-> "idle"]

\* No writer has a transaction open and none has committed.
TxnIdle ==
    /\ requirement_changelog = <<>>
    /\ txn = [w \in Writers |-> NoTxn]
    /\ next_id = 1
    /\ history = <<>>

\* alembic: migration 003 built tables, view and triggers.  create_all: the
\* ORM metadata built the tables and their constraints alone.
Schemas == {"alembic", "create_all"}

WriteIdle == schema = "alembic" /\ TxnIdle

Callers == {"c1", "c2"}

IdleCall == [pc |-> "idle"]

\* No resolution is in progress and the session holds no object.
SessionIdle == objects = <<>> /\ calls = [c \in Callers |-> IdleCall]

StoreIdle ==
    /\ WriteIdle
    /\ SessionIdle
    /\ payer_requirement = {}
    /\ org_requirement_policy = {}
    /\ today = 1
    /\ effective_requirements = ViewQuery({}, <<>>, 1)
    /\ result = NoCall

InitFold ==
    /\ StoreIdle
    /\ base \in Bases
    /\ prev = base
    /\ policy = NoPolicy
    /\ applied = <<>>
    /\ required_fields = base.required_fields
    /\ optional_fields = base.optional_fields
    /\ field_rules = base.field_rules

\* required_fields, optional_fields, field_rules = self._apply_policy(...)
FoldStep(p) ==
    LET out == _apply_policy(required_fields, optional_fields, field_rules, p)
    IN /\ prev' = WorkingSet(required_fields, optional_fields, field_rules)
       /\ policy' = p
       /\ applied' = Append(applied, p.policy_type)
       /\ required_fields' = out[1]
       /\ optional_fields' = out[2]
       /\ field_rules' = out[3]
       /\ UNCHANGED <<base, storeVars, writeVars, sessionVars>>

\* One call of _apply_policy on drawn arguments.
NextApply == \E p \in Policies : applied = <<>> /\ FoldStep(p)

SpecApply == InitFold /\ [][NextApply]_vars

\* The loop of _compute_requirements over a policy list of up to MaxFold
\* policies that touch required_fields, from a base without rules.
MaxFold == 3

FoldPolicies == {p \in Policies : DOMAIN p.field_changes \subseteq {"required_fields"}}

FoldBases == {b \in Bases : DOMAIN b.field_rules = {} /\ Len(b.optional_fields) <= 1}

InitLoop == InitFold /\ base \in FoldBases

NextLoop == \E p \in FoldPolicies : Len(applied) < MaxFold /\ FoldStep(p)

SpecFold == InitLoop /\ [][NextLoop]_vars

-----------------------------------------------------------------------------
(* The store machine: the resolver's calls on a store of drawn contents.   *)

\* No fold is in progress.
FoldIdle ==
    /\ base = WorkingSet(<<>>, <<>>, EmptyRules)
    /\ prev = base
    /\ policy = NoPolicy
    /\ applied = <<>>
    /\ required_fields = <<>>
    /\ optional_fields = <<>>
    /\ field_rules = EmptyRules

\* Tables of at most two rows, one of them of the first menu.
AtMostTwo(first, rows) == {{}} \cup {{a, b} : a \in first, b \in rows}

\* uq_payer_requirement_portal_task_version
UniqueVersions(T) ==
    \A a, b \in T :
        (a.portal_type_id = b.portal_type_id /\ a.task_type_id = b.task_type_id
            /\ a.version = b.version) => a = b

PayerRows(ptypes, tasks, versions, contents) ==
    {[portal_type_id |-> pt, task_type_id |-> tt, version |-> v, effective_date |-> d,
      required_fields |-> c.required_fields, optional_fields |-> c.optional_fields,
      field_rules |-> c.field_rules, compliance_ref |-> c.compliance_ref] :
        pt \in ptypes, tt \in tasks, v \in versions, d \in Dates, c \in contents}

PolicyRows(orgs, tasks, ptypes, versions, actives, contents) ==
    {[org_id |-> o, task_type_id |-> tt, portal_type_id |-> pt, version |-> v,
      active |-> a, policy_type |-> c.policy_type, field_changes |-> c.field_changes] :
        o \in orgs, tt \in tasks, pt \in ptypes, v \in versions, a \in actives,
        c \in contents}

PayerContentA ==
    [required_fields |-> <<"member_id">>, optional_fields |-> <<>>,
     field_rules |-> EmptyRules, compliance_ref |-> Some("CMS-0057")]

PayerContentB ==
    [required_fields |-> <<"member_id", "auth_number">>, optional_fields |-> <<>>,
     field_rules |-> EmptyRules, compliance_ref |-> Null]

Content(t, rq) == [policy_type |-> t, field_changes |-> ChangesOf(Some(rq), Null, Null)]

PolicyContents ==
    {Content("override", <<"auth_number">>), Content("override", <<"member_id">>),
     Content("add", <<"auth_number">>)}

\* A store of many policies and few payer requirements: no payer requirement
\* or one, and up to two policies, one of them of organization orgA and task
\* type eligibility.
PayerTables ==
    {{}} \cup {{r} : r \in PayerRows({1}, {"eligibility"}, {1}, {PayerContentA})}

PolicyTables ==
    AtMostTwo(PolicyRows({"orgA"}, {"eligibility"}, Opt(PortalTypeIds), Versions, BOOLEAN,
                         PolicyContents),
              PolicyRows(Orgs, TaskTypes, Opt(PortalTypeIds), Versions, BOOLEAN,
                         PolicyContents))

\* A store of many payer requirements and few policies: up to two payer
\* requirements, one of them of portal type 1 and task type eligibility, and
\* no policy or one.
BasePayerTables ==
    AtMostTwo(PayerRows({1}, {"eligibility"}, Versions, {PayerContentA, PayerContentB}),
              PayerRows(PortalTypeIds, TaskTypes, Versions, {PayerContentA, PayerContentB}))

BasePolicyTables ==
    {{}} \cup {{p} : p \in PolicyRows({"orgA"}, {"eligibility"}, {Null}, {1}, {TRUE},
                                     {Content("add", <<"auth_number">>)})}

\* The contents are drawn; the view is as a refresh of today left it.
InitStore(payer_tables, policy_tables) ==
    /\ payer_requirement \in {T \in payer_tables : UniqueVersions(T)}
    /\ org_requirement_policy \in policy_tables
    /\ today \in Dates
    /\ \E ord \in ViewOrders(org_requirement_policy) :
          /\ ~ViewRaises(ViewQuery(payer_requirement, ord, today))
          /\ effective_requirements = ViewQuery(payer_requirement, ord, today)
    /\ result = NoCall
    /\ FoldIdle
    /\ WriteIdle
    /\ SessionIdle

\* The store access that fails during a call, if any: the session's execute
\* raises on it.
Faults == {"none", "effective_requirements", "integration_endpoint",
           "payer_requirement", "org_requirement_policy"}

\* What a call comes to: a returned value or a raised exception, and the
\* relations it queried on the way.
Returned(value, accessed) == [status |-> "ok", value |-> value, accessed |-> accessed]

Raised(error, accessed) == [status |-> "error", error |-> error, accessed |-> accessed]

\* The accesses of _compute_requirements in order: the endpoint lookup
\* (scalar_one raises when no row matches), the payer requirement query, the
\* policy query.  Nothing catches what execute raises.
ComputeOutcomes(portal_id, task_type_id, as_of_date, fault) ==
    IF fault = "integration_endpoint"
        THEN {Raised("DBAPIError", <<"integration_endpoint">>)}
    ELSE IF portal_id \notin PortalIds
        THEN {Raised("NoResultFound", <<"integration_endpoint">>)}
    ELSE IF fault = "payer_requirement"
        THEN {Raised("DBAPIError", <<"integration_endpoint", "payer_requirement">>)}
    ELSE IF fault = "org_requirement_policy"
        THEN {Raised("DBAPIError", <<"integration_endpoint", "payer_requirement",
                                     "org_requirement_policy">>)}
    ELSE {Returned(value, <<"integration_endpoint", "payer_requirement",
                            "org_requirement_policy">>) :
            value \in _compute_requirements(payer_requirement, org_requirement_policy,
                                            today, portal_id, task_type_id, as_of_date)}

Call(op, portal_id, task_type_id, as_of_date, fault, outcome) ==
    [k \in {"op", "portal_id", "task_type_id", "as_of_date", "fault"}
            \cup DOMAIN outcome |->
        CASE k = "op" -> op
          [] k = "portal_id" -> portal_id
          [] k = "task_type_id" -> task_type_id
          [] k = "as_of_date" -> as_of_date
          [] k = "fault" -> fault
          [] OTHER -> outcome[k]]

\* RequirementResolver._compute_requirements(portal_id, task_type_id, as_of_date)
ComputeRequirements(portal_id, task_type_id, as_of_date, fault) ==
    /\ \E outcome \in ComputeOutcomes(portal_id, task_type_id, as_of_date, fault) :
          result' = Call("_compute_requirements", portal_id, task_type_id, as_of_date,
                         fault, outcome)
    /\ UNCHANGED <<payer_requirement, org_requirement_policy, effective_requirements,
                   today, foldVars, writeVars, sessionVars>>

\* RequirementResolver._get_from_materialized_view: the view's row as a
\* RequirementSet.
_get_from_materialized_view(rows, portal_id, task_type_id) ==
    IF <<portal_id, task_type_id>> \notin DOMAIN rows THEN Null
    ELSE LET row == rows[<<portal_id, task_type_id>>]
         IN Some(RequirementSet(Endpoint(portal_id), task_type_id,
                                row.required_fields.value, row.optional_fields.value,
                                row.field_rules.value, row.compliance_ref,
                                "effective_requirements"))

\* After the view lookup, the accesses of the fallback.
After(outcome) ==
    [outcome EXCEPT !.accessed = <<"effective_requirements">> \o outcome.accessed]

\* Mutant: a lookup that raises counts as a miss.
get_requirements_SwallowsFailure(portal_id, task_type_id, as_of_date, fault) ==
    LET requirements ==
            IF fault = "effective_requirements" \/ schema = "create_all" THEN Null
            ELSE _get_from_materialized_view(effective_requirements, portal_id,
                                             task_type_id)
    IN IF requirements # Null
          THEN {Returned(requirements[1], <<"effective_requirements">>)}
          ELSE {After(o) : o \in ComputeOutcomes(portal_id, task_type_id, as_of_date,
                                                 IF fault = "effective_requirements"
                                                    THEN "none" ELSE fault)}

\* Mutant: the result is computed whatever the view holds.
get_requirements_SkipsView(portal_id, task_type_id, as_of_date, fault) ==
    IF fault = "effective_requirements" \/ schema = "create_all"
        THEN {Raised("DBAPIError", <<"effective_requirements">>)}
    ELSE {After(o) : o \in ComputeOutcomes(portal_id, task_type_id, as_of_date, fault)}

\* RequirementResolver.get_requirements: the view first; a database built by
\* create_all has no relation effective_requirements, and the lookup raises.
get_requirements(portal_id, task_type_id, as_of_date, fault) ==
    IF fault = "effective_requirements" \/ schema = "create_all"
        THEN {Raised("DBAPIError", <<"effective_requirements">>)}
    ELSE LET requirements == _get_from_materialized_view(effective_requirements,
                                                         portal_id, task_type_id)
         IN IF requirements # Null
               THEN {Returned(requirements[1], <<"effective_requirements">>)}
               ELSE {After(o) : o \in ComputeOutcomes(portal_id, task_type_id,
                                                      as_of_date, fault)}

GetRequirements(portal_id, task_type_id, as_of_date, fault) ==
    /\ \E outcome \in get_requirements(portal_id, task_type_id, as_of_date, fault) :
          result' = Call("get_requirements", portal_id, task_type_id, as_of_date, fault,
                         outcome)
    /\ UNCHANGED <<payer_requirement, org_requirement_policy, effective_requirements,
                   today, foldVars, writeVars, sessionVars>>

\* Mutant: the refresh is queued; the call returns with the view as it was.
RefreshMaterializedView_Queued ==
    /\ \A w \in Writers : txn[w].pc = "written" => txn[w].view = <<>>
    /\ schema = "alembic"
    /\ result' = [op |-> "refresh_materialized_view", status |-> "ok"]
    /\ UNCHANGED <<payer_requirement, org_requirement_policy, effective_requirements,
                   today, foldVars, writeVars, sessionVars>>

\* RequirementResolver.refresh_materialized_view: REFRESH MATERIALIZED VIEW
\* effective_requirements.  A query that raises leaves the view as it was.
RefreshMaterializedView ==
    /\ \A w \in Writers : txn[w].pc = "written" => txn[w].view = <<>>
    /\ \E ord \in ViewOrders(org_requirement_policy) :
          LET rows == ViewQuery(payer_requirement, ord, today)
          IN IF schema = "create_all" \/ ViewRaises(rows)
                THEN /\ result' = [op |-> "refresh_materialized_view", status |-> "error"]
                     /\ UNCHANGED effective_requirements
                ELSE /\ result' = [op |-> "refresh_materialized_view", status |-> "ok"]
                     /\ effective_requirements' = rows
    /\ UNCHANGED <<payer_requirement, org_requirement_policy, today, foldVars, writeVars,
                   sessionVars>>

Init == InitStore(PayerTables, PolicyTables)

Next ==
    \/ \E portal_id \in PortalIds, task_type_id \in TaskTypes :
          ComputeRequirements(portal_id, task_type_id, Null, "none")
    \/ \E portal_id \in PortalIds, task_type_id \in TaskTypes :
          GetRequirements(portal_id, task_type_id, Null, "none")
    \/ RefreshMaterializedView

Spec == Init /\ [][Next]_vars

InitBase == InitStore(BasePayerTables, BasePolicyTables)

NextBase ==
    \/ \E portal_id \in PortalIds, task_type_id \in TaskTypes, as_of_date \in Opt(Dates) :
          ComputeRequirements(portal_id, task_type_id, as_of_date, "none")
    \/ \E portal_id \in PortalIds, task_type_id \in TaskTypes, as_of_date \in Opt(Dates) :
          GetRequirements(portal_id, task_type_id, as_of_date, "none")
    \/ RefreshMaterializedView

SpecBase == InitBase /\ [][NextBase]_vars

\* Lookups on either schema, for keys the view may lack and with store
\* accesses that may fail.  The view, where there is one, is as a refresh of
\* some day up to today left it.
NoView == [k \in {} |-> NoCall]

RequestedPortals == PortalIds \cup {3}

RequestedTasks == TaskTypes \cup {"unregistered"}

InitLookup ==
    /\ payer_requirement \in PayerTables
    /\ org_requirement_policy \in BasePolicyTables
    /\ today \in Dates
    /\ schema \in Schemas
    /\ IF schema = "alembic"
          THEN \E d \in Dates, ord \in ViewOrders(org_requirement_policy) :
                  d <= today /\ effective_requirements = ViewQuery(payer_requirement, ord, d)
          ELSE effective_requirements = NoView
    /\ result = NoCall
    /\ FoldIdle
    /\ TxnIdle
    /\ SessionIdle

NextLookup ==
    \/ \E portal_id \in RequestedPortals, task_type_id \in RequestedTasks,
          as_of_date \in Opt(Dates), fault \in Faults :
          ComputeRequirements(portal_id, task_type_id, as_of_date, fault)
    \/ \E portal_id \in RequestedPortals, task_type_id \in RequestedTasks,
          as_of_date \in Opt(Dates), fault \in Faults :
          GetRequirements(portal_id, task_type_id, as_of_date, fault)

SpecLookup == InitLookup /\ [][NextLookup]_vars

-----------------------------------------------------------------------------
(* Writes: statements on payer_requirement and org_requirement_policy, the *)
(* constraints that screen them and the triggers they fire.  A writer      *)
(* reads the highest version of its scope, writes one row change and       *)
(* commits; its rows carry created_by NULL, as the rows of                 *)
(* migrate_requirements_data.py do.                                        *)

Tables == {"payer_requirement", "org_requirement_policy"}

\* One row change: INSERT (new), UPDATE (old, new) or DELETE (old).
Stmt(kind, table, old, new) == [kind |-> kind, table |-> table, old |-> old, new |-> new]

\* The table after the row change.
AfterChange(rows, stmt) ==
    (rows \ {r \in rows : stmt.old = Some(r)})
        \cup (IF stmt.new = Null THEN {} ELSE {stmt.new[1]})

RowsOf(table) ==
    IF table = "payer_requirement" THEN payer_requirement ELSE org_requirement_policy

\* The primary key of either table.
PrimaryKey(row) ==
    IF "requirement_id" \in DOMAIN row THEN row.requirement_id ELSE row.policy_id

\* uq_payer_requirement_portal_task_version, on the rows of the table and on
\* those other open transactions have written: org_requirement_policy has no
\* such constraint.
SameVersion(a, b) ==
    /\ a.portal_type_id = b.portal_type_id
    /\ a.task_type_id = b.task_type_id
    /\ a.version = b.version
    /\ PrimaryKey(a) # PrimaryKey(b)

\* Mutant: payer_requirement has no unique constraint either.
UniqueViolation_None(stmt) == FALSE

UniqueViolation(stmt) ==
    /\ stmt.table = "payer_requirement"
    /\ stmt.new # Null
    /\ \E r \in payer_requirement : SameVersion(stmt.new[1], r)

\* chk_policy_type: policy_type IN ('add', 'remove', 'override')
CheckViolation(stmt) ==
    /\ stmt.table = "org_requirement_policy"
    /\ stmt.new # Null
    /\ stmt.new[1].policy_type \notin {"add", "remove", "override"}

\* The statement waits for another transaction's lock: on the index entry of
\* the same (portal type, task type, version) or on the row it changes.
WaitsForRow(w, stmt) ==
    \E v \in Writers \ {w} :
        /\ txn[v].pc = "written"
        /\ \/ /\ stmt.table = "payer_requirement"
              /\ stmt.new # Null /\ txn[v].stmt.new # Null
              /\ txn[v].stmt.table = "payer_requirement"
              /\ SameVersion(stmt.new[1], txn[v].stmt.new[1])
           \/ stmt.old # Null /\ txn[v].stmt.old = stmt.old

\* REFRESH MATERIALIZED VIEW waits for the lock another transaction's refresh
\* holds on the view until it commits.
WaitsForView(w) == \E v \in Writers \ {w} : txn[v].pc = "written" /\ txn[v].view # Null

\* app.current_user_id as current_setting(..., true) reads it: NULL when never
\* set, '' after a transaction that SET LOCAL it.
UserSettings == {Null, Some("")}

TriggerError(error) == [status |-> "error", error |-> error]

\* log_requirement_change(), FOR EACH ROW: NEW.requirement_id and
\* OLD.requirement_id raise on a row of org_requirement_policy, whose key is
\* policy_id; ''::uuid raises.
log_requirement_change(stmt, app_user) ==
    LET rec == IF stmt.kind = "DELETE" THEN stmt.old[1] ELSE stmt.new[1]
    IN IF "requirement_id" \notin DOMAIN rec THEN TriggerError("UndefinedColumn")
       ELSE IF app_user = Some("") THEN TriggerError("InvalidTextRepresentation")
       ELSE [status |-> "ok",
             entry |-> [source_table |-> stmt.table, source_id |-> rec.requirement_id,
                        change_type |-> stmt.kind,
                        previous_value |-> IF stmt.kind = "INSERT" THEN Null ELSE stmt.old,
                        new_value |-> IF stmt.kind = "DELETE" THEN Null ELSE stmt.new,
                        changed_by |-> app_user]]

\* Mutant: the view is refreshed on INSERT alone.
refresh_effective_requirements_OnInsert(stmt) ==
    LET payers == IF stmt.table = "payer_requirement"
                     THEN AfterChange(payer_requirement, stmt) ELSE payer_requirement
        policies == IF stmt.table = "org_requirement_policy"
                       THEN AfterChange(org_requirement_policy, stmt)
                       ELSE org_requirement_policy
    IN IF stmt.kind # "INSERT" THEN {[status |-> "ok", view |-> effective_requirements]}
       ELSE {IF ViewRaises(ViewQuery(payers, ord, today))
                THEN TriggerError("InvalidParameterValue")
                ELSE [status |-> "ok", view |-> ViewQuery(payers, ord, today)] :
                ord \in ViewOrders(policies)}

\* refresh_effective_requirements(), FOR EACH STATEMENT: the view as the
\* query gives it on the committed rows and the statement's own change.
refresh_effective_requirements(stmt) ==
    LET payers == IF stmt.table = "payer_requirement"
                     THEN AfterChange(payer_requirement, stmt) ELSE payer_requirement
        policies == IF stmt.table = "org_requirement_policy"
                       THEN AfterChange(org_requirement_policy, stmt)
                       ELSE org_requirement_policy
    IN {IF ViewRaises(ViewQuery(payers, ord, today))
           THEN TriggerError("InvalidParameterValue")
           ELSE [status |-> "ok", view |-> ViewQuery(payers, ord, today)] :
           ord \in ViewOrders(policies)}

MaxChanges == 3

PayerScope == [portal_type_id |-> 1, task_type_id |-> "eligibility"]

PolicyScope == [org_id |-> "orgA", task_type_id |-> "eligibility", portal_type_id |-> Null]

\* What writers put into a policy: a well-formed change, a field_changes
\* with none of the three keys, a policy_type outside PolicyType.
WrittenPolicies ==
    {Content("add", <<"auth_number">>),
     [policy_type |-> "override", field_changes |-> ChangesOf(Null, Null, Null)],
     Content("replace", <<"auth_number">>)}

InScope(table, r) ==
    IF table = "payer_requirement"
        THEN r.portal_type_id = PayerScope.portal_type_id
                /\ r.task_type_id = PayerScope.task_type_id
        ELSE r.org_id = PolicyScope.org_id /\ r.task_type_id = PolicyScope.task_type_id
                /\ r.portal_type_id = PolicyScope.portal_type_id

\* SELECT max(version) of the scope; 0 stands for no row.
CurrentVersion(table) ==
    LET vs == {r.version : r \in {q \in RowsOf(table) : InScope(table, q)}}
    IN IF vs = {} THEN 0 ELSE CHOOSE v \in vs : \A u \in vs : u <= v

\* The writer reads the version its scope has reached.
ReadMaxVersion(w, table) ==
    /\ txn[w].pc = "idle"
    /\ CurrentVersion(table) < MaxVersion
    /\ txn' = [txn EXCEPT ![w] = [pc |-> "read", table |-> table,
                                  seen |-> CurrentVersion(table)]]
    /\ UNCHANGED <<storeVars, foldVars, schema, requirement_changelog, next_id, history,
                   sessionVars>>

\* What executing the statement comes to: the constraints, then, with the
\* triggers of migration 003, the changelog entry of the row and the refresh
\* of the view.  An exception aborts the statement and its transaction.
StatementOutcomes(stmt, app_user) ==
    IF CheckViolation(stmt) THEN {TriggerError("CheckViolation")}
    ELSE IF UniqueViolation(stmt) THEN {TriggerError("UniqueViolation")}
    ELSE IF schema = "create_all" THEN {[status |-> "ok", log |-> <<>>, view |-> Null]}
    ELSE LET logged == log_requirement_change(stmt, app_user)
         IN IF logged.status = "error" THEN {logged}
            ELSE {IF refreshed.status = "error" THEN refreshed
                  ELSE [status |-> "ok", log |-> <<logged.entry>>,
                        view |-> Some(refreshed.view)] :
                    refreshed \in refresh_effective_requirements(stmt)}

Open == {v \in Writers : txn[v].pc = "written"}

Execute(w, stmt, app_user) ==
    /\ Len(history) + Cardinality(Open) < MaxChanges
    /\ ~WaitsForRow(w, stmt)
    /\ \E o \in StatementOutcomes(stmt, app_user) :
          /\ (o.status = "ok" /\ o.view # Null) => ~WaitsForView(w)
          /\ txn' = [txn EXCEPT ![w] =
                        IF o.status = "ok"
                           THEN [pc |-> "written", stmt |-> stmt, log |-> o.log,
                                 view |-> o.view]
                           ELSE NoTxn]
          /\ result' = IF o.status = "ok"
                          THEN [op |-> stmt.kind, writer |-> w, stmt |-> stmt,
                                status |-> "ok"]
                          ELSE [op |-> stmt.kind, writer |-> w, stmt |-> stmt,
                                status |-> "error", error |-> o.error]
          \* an id drawn for a row that was not written is never seen
          /\ next_id' = IF stmt.kind = "INSERT" /\ o.status = "ok"
                            THEN next_id + 1 ELSE next_id
    /\ UNCHANGED <<payer_requirement, org_requirement_policy, effective_requirements,
                   today, foldVars, schema, requirement_changelog, history, sessionVars>>

\* session.add(PayerRequirement(..., version = seen + 1)); flush
InsertPayerRequirement(w, effective_date, app_user) ==
    /\ txn[w].pc = "read" /\ txn[w].table = "payer_requirement"
    /\ Execute(w, Stmt("INSERT", "payer_requirement", Null,
                       Some([requirement_id |-> next_id,
                             portal_type_id |-> PayerScope.portal_type_id,
                             task_type_id |-> PayerScope.task_type_id,
                             version |-> txn[w].seen + 1,
                             effective_date |-> effective_date,
                             required_fields |-> PayerContentA.required_fields,
                             optional_fields |-> PayerContentA.optional_fields,
                             field_rules |-> PayerContentA.field_rules,
                             compliance_ref |-> PayerContentA.compliance_ref])),
               app_user)

\* session.add(OrgRequirementPolicy(..., version = seen + 1, active = True)); flush
InsertOrgRequirementPolicy(w, content, app_user) ==
    /\ txn[w].pc = "read" /\ txn[w].table = "org_requirement_policy"
    /\ Execute(w, Stmt("INSERT", "org_requirement_policy", Null,
                       Some([policy_id |-> next_id, org_id |-> PolicyScope.org_id,
                             task_type_id |-> PolicyScope.task_type_id,
                             portal_type_id |-> PolicyScope.portal_type_id,
                             version |-> txn[w].seen + 1, active |-> TRUE,
                             policy_type |-> content.policy_type,
                             field_changes |-> content.field_changes])),
               app_user)

\* UPDATE payer_requirement SET effective_date = ...
UpdatePayerRequirement(w, row, effective_date, app_user) ==
    /\ txn[w].pc = "idle"
    /\ row \in payer_requirement /\ row.effective_date # effective_date
    /\ Execute(w, Stmt("UPDATE", "payer_requirement", Some(row),
                       Some([row EXCEPT !.effective_date = effective_date])), app_user)

\* UPDATE org_requirement_policy SET active = ...
UpdateOrgRequirementPolicy(w, row, active, app_user) ==
    /\ txn[w].pc = "idle"
    /\ row \in org_requirement_policy /\ row.active # active
    /\ Execute(w, Stmt("UPDATE", "org_requirement_policy", Some(row),
                       Some([row EXCEPT !.active = active])), app_user)

\* DELETE FROM payer_requirement / org_requirement_policy
Delete(w, table, row, app_user) ==
    /\ txn[w].pc = "idle"
    /\ row \in RowsOf(table)
    /\ Execute(w, Stmt("DELETE", table, Some(row), Null), app_user)

\* session.commit(): the row change, the changelog entry and the refreshed
\* view become visible together.
Commit(w) ==
    /\ txn[w].pc = "written"
    /\ payer_requirement' = IF txn[w].stmt.table = "payer_requirement"
                               THEN AfterChange(payer_requirement, txn[w].stmt)
                               ELSE payer_requirement
    /\ org_requirement_policy' = IF txn[w].stmt.table = "org_requirement_policy"
                                    THEN AfterChange(org_requirement_policy, txn[w].stmt)
                                    ELSE org_requirement_policy
    /\ requirement_changelog' = requirement_changelog \o txn[w].log
    /\ effective_requirements' = IF txn[w].view # Null THEN txn[w].view[1]
                                 ELSE effective_requirements
    /\ history' = Append(history, txn[w].stmt)
    /\ txn' = [txn EXCEPT ![w] = NoTxn]
    /\ result' = [op |-> "COMMIT", writer |-> w, stmt |-> txn[w].stmt, status |-> "ok"]
    /\ UNCHANGED <<today, foldVars, schema, next_id, sessionVars>>

\* Midnight.
Tick ==
    /\ today < MaxDate
    /\ today' = today + 1
    /\ UNCHANGED <<payer_requirement, org_requirement_policy, effective_requirements,
                   result, foldVars, writeVars, sessionVars>>

\* A database as either schema builds it, empty.
InitWrite ==
    /\ schema \in Schemas
    /\ payer_requirement = {}
    /\ org_requirement_policy = {}
    /\ today = 1
    /\ effective_requirements = IF schema = "alembic" THEN ViewQuery({}, <<>>, 1) ELSE NoView
    /\ result = NoCall
    /\ FoldIdle
    /\ TxnIdle
    /\ SessionIdle

NextWrite ==
    \/ \E w \in Writers, table \in Tables : ReadMaxVersion(w, table)
    \/ \E w \in Writers, effective_date \in Dates, app_user \in UserSettings :
          InsertPayerRequirement(w, effective_date, app_user)
    \/ \E w \in Writers, content \in WrittenPolicies, app_user \in UserSettings :
          InsertOrgRequirementPolicy(w, content, app_user)
    \/ \E w \in Writers, row \in payer_requirement, effective_date \in Dates,
          app_user \in UserSettings :
          UpdatePayerRequirement(w, row, effective_date, app_user)
    \/ \E w \in Writers, row \in org_requirement_policy, active \in BOOLEAN,
          app_user \in UserSettings :
          UpdateOrgRequirementPolicy(w, row, active, app_user)
    \/ \E w \in Writers, table \in Tables, app_user \in UserSettings :
          \E row \in RowsOf(table) : Delete(w, table, row, app_user)
    \/ \E w \in Writers : Commit(w)
    \/ RefreshMaterializedView
    \/ Tick

SpecWrite == InitWrite /\ [][NextWrite]_vars

-----------------------------------------------------------------------------
(* RequirementSet.validate_fields: a resolved set against a submission.    *)

\* Python values a submission carries: None, a str (a sequence of
\* characters), an int.
PyNone == [kind |-> "NoneType", value |-> <<>>]
PyStr(s) == [kind |-> "str", value |-> s]
PyInt(n) == [kind |-> "int", value |-> n]

Chars == {"A", "\n"}

MaxLen == 2

Strings == UNION {[1..n -> Chars] : n \in 0..MaxLen}

Values == {PyNone, PyInt(1)} \cup {PyStr(s) : s \in Strings}

\* A regular expression: the characters it matches in order, and whether it
\* ends with the anchor $.
Regex(chars, anchored) == [chars |-> chars, anchored |-> anchored]

Patterns == {Regex(<<"A">>, FALSE), Regex(<<"A">>, TRUE)}

\* re.match(pattern, value): the pattern matches at the start of the value;
\* what follows the match is not looked at.  $ matches at the end of the
\* value and before a newline that ends the value.
re_match(pattern, value) ==
    LET n == Len(pattern.chars)
    IN /\ Len(value) >= n
       /\ SubSeq(value, 1, n) = pattern.chars
       /\ pattern.anchored =>
             \/ Len(value) = n
             \/ Len(value) = n + 1 /\ value[n + 1] = "\n"

\* The rules of one field: any subset of pattern, min_length, max_length, enum.
RulesOf(pt, mn, mx, en) ==
    [k \in (IF pt = <<>> THEN {} ELSE {"pattern"})
           \cup (IF mn = <<>> THEN {} ELSE {"min_length"})
           \cup (IF mx = <<>> THEN {} ELSE {"max_length"})
           \cup (IF en = <<>> THEN {} ELSE {"enum"}) |->
        CASE k = "pattern" -> pt[1]
          [] k = "min_length" -> mn[1]
          [] k = "max_length" -> mx[1]
          [] OTHER -> en[1]]

Lengths == {1}

Enums == {<<PyStr(<<"A">>), PyInt(1)>>}

FieldRules ==
    {RulesOf(pt, mn, mx, en) :
        pt \in Opt(Patterns), mn \in Opt(Lengths), mx \in Opt(Lengths), en \in Opt(Enums)}

\* f"{field}: Does not match required pattern {pattern}", "Must be at least
\* {n} characters", "Must be at most {n} characters", "Must be one of {enum}":
\* the field, the rule that failed and its argument.
Error(field, rule, rules) == [f \in {"field", rule} |-> IF f = "field" THEN field ELSE rules[rule]]

\* Mutant: the first failing rule ends the checks of the field.
_validate_field_rules_ShortCircuit(field, value, rules) ==
    LET is_str == value.kind = "str"
    IN IF "pattern" \in DOMAIN rules /\ is_str /\ ~re_match(rules["pattern"], value.value)
           THEN <<Error(field, "pattern", rules)>>
       ELSE IF "min_length" \in DOMAIN rules /\ is_str /\ Len(value.value) < rules["min_length"]
           THEN <<Error(field, "min_length", rules)>>
       ELSE IF "max_length" \in DOMAIN rules /\ is_str /\ Len(value.value) > rules["max_length"]
           THEN <<Error(field, "max_length", rules)>>
       ELSE IF "enum" \in DOMAIN rules /\ value \notin Range(rules["enum"])
           THEN <<Error(field, "enum", rules)>>
       ELSE <<>>

\* Mutant: a value of exactly min_length or max_length characters fails.
_validate_field_rules_StrictBounds(field, value, rules) ==
    LET is_str == value.kind = "str"
    IN (IF "pattern" \in DOMAIN rules /\ is_str /\ ~re_match(rules["pattern"], value.value)
           THEN <<Error(field, "pattern", rules)>> ELSE <<>>)
       \o (IF "min_length" \in DOMAIN rules /\ is_str /\ Len(value.value) <= rules["min_length"]
           THEN <<Error(field, "min_length", rules)>> ELSE <<>>)
       \o (IF "max_length" \in DOMAIN rules /\ is_str /\ Len(value.value) >= rules["max_length"]
           THEN <<Error(field, "max_length", rules)>> ELSE <<>>)
       \o (IF "enum" \in DOMAIN rules /\ value \notin Range(rules["enum"])
           THEN <<Error(field, "enum", rules)>> ELSE <<>>)

_validate_field_rules(field, value, rules) ==
    LET is_str == value.kind = "str"
    IN (IF "pattern" \in DOMAIN rules /\ is_str /\ ~re_match(rules["pattern"], value.value)
           THEN <<Error(field, "pattern", rules)>> ELSE <<>>)
       \o (IF "min_length" \in DOMAIN rules /\ is_str /\ Len(value.value) < rules["min_length"]
           THEN <<Error(field, "min_length", rules)>> ELSE <<>>)
       \o (IF "max_length" \in DOMAIN rules /\ is_str /\ Len(value.value) > rules["max_length"]
           THEN <<Error(field, "max_length", rules)>> ELSE <<>>)
       \o (IF "enum" \in DOMAIN rules /\ value \notin Range(rules["enum"])
           THEN <<Error(field, "enum", rules)>> ELSE <<>>)

\* Mutant: a required field submitted as None counts as present.
MissingRequired_NoneIsPresent(required, submitted_fields) ==
    SelectSeq(required, LAMBDA field : field \notin DOMAIN submitted_fields)

\* for field in self.required_fields:
\*     if field not in submitted_fields or submitted_fields[field] is None: ...
MissingRequired(required, submitted_fields) ==
    SelectSeq(required,
              LAMBDA field : \/ field \notin DOMAIN submitted_fields
                             \/ submitted_fields[field] = PyNone)

\* for field in submitted_fields: if field not in all_allowed_fields: ...
\* keys is the submission's keys in the order the dict yields them.
ExtraFields(required, optional, keys) ==
    SelectSeq(keys, LAMBDA field : field \notin Range(required) \cup Range(optional))

\* for field, rules in self.field_rules.items(): if field in submitted_fields: ...
\* items is field_rules' keys in the order the dict yields them.
RECURSIVE ValidationErrors(_, _, _)
ValidationErrors(rules, submitted_fields, items) ==
    IF items = <<>> THEN <<>>
    ELSE (IF Head(items) \in DOMAIN submitted_fields
              THEN _validate_field_rules(Head(items), submitted_fields[Head(items)],
                                         rules[Head(items)])
              ELSE <<>>)
         \o ValidationErrors(rules, submitted_fields, Tail(items))

\* Mutant: extra fields invalidate as missing fields and errors do.
IsValid_NoExtras(missing_required, extra_fields, validation_errors) ==
    missing_required = <<>> /\ extra_fields = <<>> /\ validation_errors = <<>>

\* is_valid=not (missing_required or validation_errors)
IsValid(missing_required, extra_fields, validation_errors) ==
    ~(missing_required # <<>> \/ validation_errors # <<>>)

ValidationResult(missing_required, extra_fields, validation_errors) ==
    [is_valid |-> IsValid(missing_required, extra_fields, validation_errors),
     missing_required |-> missing_required,
     extra_fields |-> extra_fields,
     validation_errors |-> validation_errors]

\* The orders in which a dict of these keys can yield them.
Orders(S) == {o \in [1..Cardinality(S) -> S] : Range(o) = S}

\* validate_fields on the set (required, optional, rules), the submission's
\* keys yielded in the order keys and field_rules' in the order items.
validate_fields(required, optional, rules, submitted_fields, keys, items) ==
    ValidationResult(MissingRequired(required, submitted_fields),
                     ExtraFields(required, optional, keys),
                     ValidationErrors(rules, submitted_fields, items))

Submissions == UNION {[S -> Values] : S \in SUBSET Fields}

\* The resolved sets validated: one field is ruled, or both by rules of one key.
ValidatedLists ==
    {<<>>, <<"member_id">>, <<"member_id", "auth_number">>, <<"auth_number", "member_id">>}

ValidatedRules ==
    UNION {[S -> FieldRules] : S \in {{}, {"member_id"}}}
        \cup [Fields -> {RulesOf(<<>>, <<n>>, <<>>, <<>>) : n \in Lengths}
                            \cup {RulesOf(<<>>, <<>>, <<>>, <<e>>) : e \in Enums}]

ValidateFields(submitted_fields, keys, items) ==
    /\ result = NoCall
    /\ result' = [op |-> "validate_fields", submitted_fields |-> submitted_fields,
                  keys |-> keys, items |-> items, status |-> "ok",
                  value |-> validate_fields(required_fields, optional_fields, field_rules,
                                            submitted_fields, keys, items)]
    /\ UNCHANGED <<payer_requirement, org_requirement_policy, effective_requirements,
                   today, foldVars, writeVars, sessionVars>>

InitValidate ==
    /\ StoreIdle
    /\ base = WorkingSet(<<>>, <<>>, EmptyRules)
    /\ prev = base
    /\ policy = NoPolicy
    /\ applied = <<>>
    /\ required_fields \in ValidatedLists
    /\ optional_fields \in {<<>>, <<"auth_number">>}
    /\ field_rules \in ValidatedRules

NextValidate ==
    \E submitted_fields \in Submissions :
        \E keys \in Orders(DOMAIN submitted_fields), items \in Orders(DOMAIN field_rules) :
            ValidateFields(submitted_fields, keys, items)

SpecValidate == InitValidate /\ [][NextValidate]_vars

-----------------------------------------------------------------------------
(* Resolutions that run in one session.  The rows a query returns are the  *)
(* session's ORM objects, the same for every call; their JSON attributes   *)
(* and the lists and dicts a call builds are objects in memory that an     *)
(* append, update or pop changes in place.                                 *)

Attrs == {"required_fields", "optional_fields", "field_rules"}

\* The cell of a row's attribute (of a policy: of field_changes[attr]) and
\* the cell of a call's local variable.
RowCell(id, attr) == [row |-> id, attr |-> attr]

Local(c, attr) == [call |-> c, attr |-> attr]

WithKey(row, key, id) == [k \in DOMAIN row \cup {key} |-> IF k = key THEN id ELSE row[k]]

\* The cells of the loaded rows and what they hold: a list of names, or the
\* object or list under field_rules.
RowCells(payer_rows, policy_rows) ==
    {RowCell(r.requirement_id, a) : r \in payer_rows, a \in Attrs}
        \cup UNION {{RowCell(p.policy_id, a) : a \in DOMAIN p.field_changes} :
                        p \in policy_rows}

Loaded(payer_rows, policy_rows) ==
    [cell \in RowCells(payer_rows, policy_rows) |->
        IF \E r \in payer_rows : r.requirement_id = cell.row
            THEN (CHOOSE r \in payer_rows : r.requirement_id = cell.row)[cell.attr]
            ELSE LET p == CHOOSE p \in policy_rows : p.policy_id = cell.row
                 IN IF cell.attr = "field_rules" THEN p.field_changes[cell.attr].value
                    ELSE p.field_changes[cell.attr]]

\* policy.field_changes as the session holds it now.
FieldChanges(p) ==
    [a \in DOMAIN p.field_changes |->
        IF a = "field_rules"
            THEN [kind |-> p.field_changes[a].kind, value |-> objects[RowCell(p.policy_id, a)]]
            ELSE objects[RowCell(p.policy_id, a)]]

\* Mutant: the local variable is bound to the object it was to copy.
Bind_Alias(c, attr, source) == source

\* list(source) / dict(source): the local variable is bound to a new object.
Bind(c, attr, source) == Local(c, attr)

\* Writing the values into their cells.
Store(objs, writes) ==
    [cell \in DOMAIN objs \cup DOMAIN writes |->
        IF cell \in DOMAIN writes THEN writes[cell] ELSE objs[cell]]

\* The cells the call's variables are bound to, holding the given values.
Held(refs, values) ==
    [cell \in {refs[a] : a \in Attrs} |-> values[CHOOSE a \in Attrs : refs[a] = cell]]

\* _compute_requirements up to the loop: the three queries, then "Start with
\* payer requirements or empty".
Begin(c, portal_id, task_type_id) ==
    /\ calls[c].pc = "idle"
    /\ LET portal == Endpoint(portal_id)
           payer_req == PayerReqQuery(payer_requirement, portal.portal_type_id,
                                      task_type_id, EffectiveDate(Null, today))
           refs == [a \in Attrs |->
                       IF payer_req # Null
                           THEN Bind(c, a, RowCell(payer_req[1].requirement_id, a))
                           ELSE Local(c, a)]
           values == [a \in Attrs |->
                         IF payer_req # Null
                             THEN objects[RowCell(payer_req[1].requirement_id, a)]
                         ELSE IF a = "field_rules" THEN EmptyRules ELSE <<>>]
       IN /\ objects' = Store(objects, Held(refs, values))
          /\ \E policies \in OrderByVersion(PolicyFilter(org_requirement_policy, portal,
                                                         task_type_id)) :
                calls' = [calls EXCEPT ![c] =
                             [pc |-> "fold", portal_id |-> portal_id,
                              task_type_id |-> task_type_id, refs |-> refs,
                              policies |-> policies, folded |-> 0,
                              compliance_ref |-> IF payer_req # Null
                                                    THEN payer_req[1].compliance_ref
                                                    ELSE Null]]
    /\ UNCHANGED <<storeVars, foldVars, writeVars>>

\* One turn of "for policy in policies": _apply_policy on the objects the
\* call's variables are bound to.  add appends and updates in place, remove
\* builds new lists and pops in place, override copies the policy's values.
Fold(c) ==
    /\ calls[c].pc = "fold"
    /\ calls[c].folded < Len(calls[c].policies)
    /\ LET p == calls[c].policies[calls[c].folded + 1]
           changes == FieldChanges(p)
           refs == calls[c].refs
           out == _apply_policy(objects[refs["required_fields"]],
                                objects[refs["optional_fields"]],
                                objects[refs["field_rules"]],
                                [policy_type |-> p.policy_type, field_changes |-> changes])
           values == [a \in Attrs |->
                         CASE a = "required_fields" -> out[1]
                           [] a = "optional_fields" -> out[2]
                           [] OTHER -> out[3]]
           bound == [a \in Attrs |->
                        IF a \notin DOMAIN changes THEN refs[a]
                        ELSE CASE p.policy_type = "override" ->
                                      Bind(c, a, RowCell(p.policy_id, a))
                               [] p.policy_type = "remove" /\ a # "field_rules" ->
                                      Local(c, a)
                               [] OTHER -> refs[a]]
       IN /\ objects' = Store(objects, Held(bound, values))
          /\ calls' = [calls EXCEPT ![c].refs = bound, ![c].folded = @ + 1]
    /\ UNCHANGED <<storeVars, foldVars, writeVars>>

\* return RequirementSet(...): the call's objects leave with the result.
Return(c) ==
    /\ calls[c].pc = "fold"
    /\ calls[c].folded = Len(calls[c].policies)
    /\ result' = Call("_compute_requirements", calls[c].portal_id, calls[c].task_type_id,
                      Null, "none",
                      Returned(RequirementSet(Endpoint(calls[c].portal_id),
                                              calls[c].task_type_id,
                                              objects[calls[c].refs["required_fields"]],
                                              objects[calls[c].refs["optional_fields"]],
                                              objects[calls[c].refs["field_rules"]],
                                              calls[c].compliance_ref, "computed"),
                               <<"integration_endpoint", "payer_requirement",
                                 "org_requirement_policy">>))
    /\ objects' = [cell \in DOMAIN objects \ {Local(c, a) : a \in Attrs} |-> objects[cell]]
    /\ calls' = [calls EXCEPT ![c] = IdleCall]
    /\ UNCHANGED <<payer_requirement, org_requirement_policy, effective_requirements,
                   today, foldVars, writeVars>>

\* One payer requirement of portal type 1 or none, and up to two active
\* policies of orgA that add, remove and override lists and rules.
SessionContents ==
    {Content("add", <<"auth_number">>), Content("remove", <<"member_id">>),
     Content("override", <<"auth_number">>),
     [policy_type |-> "add",
      field_changes |-> ChangesOf(Null, Some(<<"auth_number">>),
                                  Some(JsonDict([f \in {"member_id"} |-> [min_length |-> 3]])))],
     [policy_type |-> "override",
      field_changes |-> ChangesOf(Null, Some(<<"member_id">>),
                                  Some(JsonDict([f \in {"auth_number"} |-> [min_length |-> 5]])))]}

SessionPolicies ==
    PolicyRows({"orgA"}, {"eligibility"}, {Null}, Versions, {TRUE}, SessionContents)

InitSession ==
    /\ payer_requirement \in
          {{}} \cup {{WithKey(r, "requirement_id", 1)} :
                        r \in PayerRows({1}, {"eligibility"}, {1}, {PayerContentA})}
    /\ org_requirement_policy \in
          {{}} \cup {{WithKey(p, "policy_id", 2)} : p \in SessionPolicies}
               \cup {{WithKey(p, "policy_id", 2), WithKey(q, "policy_id", 3)} :
                        p \in SessionPolicies, q \in SessionPolicies}
    /\ today \in Dates
    /\ effective_requirements = NoView
    /\ result = NoCall
    /\ schema = "create_all"
    /\ FoldIdle
    /\ TxnIdle
    /\ objects = Loaded(payer_requirement, org_requirement_policy)
    /\ calls = [c \in Callers |-> IdleCall]

NextSession ==
    \/ \E c \in Callers, portal_id \in PortalIds, task_type_id \in TaskTypes :
          Begin(c, portal_id, task_type_id)
    \/ \E c \in Callers : Fold(c)
    \/ \E c \in Callers : Return(c)

SpecSession == InitSession /\ [][NextSession]_vars

-----------------------------------------------------------------------------
(* Properties of writes and of the refresh *)

Refreshed == result.op = "refresh_materialized_view" /\ result.status = "ok"

\* The views a refresh on day d gives on the committed rows.
FreshViews(d) ==
    {ViewQuery(payer_requirement, ord, d) : ord \in ViewOrders(org_requirement_policy)}

SameVersionRows(a, b) ==
    /\ a.portal_type_id = b.portal_type_id
    /\ a.task_type_id = b.task_type_id
    /\ a.version = b.version

\* A step in which refresh_materialized_view returns.
RefreshReturns ==
    /\ result'.op = "refresh_materialized_view" /\ result'.status = "ok"
    /\ UNCHANGED <<payer_requirement, org_requirement_policy, today, writeVars>>

\* C12: when refresh_materialized_view returns, the view holds for every key
\* what the view's query gives today on the rows committed before the call.
C12_RefreshIsSynchronous ==
    [][RefreshReturns =>
          effective_requirements' \in
              {ViewQuery(payer_requirement, ord, today) :
                  ord \in ViewOrders(org_requirement_policy)}]_vars

\* A refresh has brought into the view a payer requirement that took effect
\* today, a day after the database was set up.
C12_Witness ==
    /\ Refreshed
    /\ today > 1
    /\ \E r \in payer_requirement :
          /\ r.effective_date = today
          /\ effective_requirements[<<1, r.task_type_id>>].required_fields.value
                = r.required_fields

C14_PayerVersionsUnique ==
    /\ \A a, b \in payer_requirement : SameVersionRows(a, b) => a = b
    /\ (/\ result.op = "INSERT" /\ result.stmt.table = "payer_requirement"
        /\ \E r \in payer_requirement : SameVersionRows(r, result.stmt.new[1]))
          => result.status = "error" /\ result.error = "UniqueViolation"

\* Two writers read the same version and proposed the next; one committed,
\* the other was rejected.
C14_Witness ==
    /\ result.op = "INSERT" /\ result.stmt.table = "payer_requirement"
    /\ result.status = "error" /\ result.error = "UniqueViolation"
    /\ \E r \in payer_requirement :
          /\ SameVersionRows(r, result.stmt.new[1])
          /\ r.requirement_id # result.stmt.new[1].requirement_id
    /\ history # <<>>
    /\ history[Len(history)].kind = "INSERT"

\* C15: no two committed policies of one organization, task type and portal
\* type share a version.
C15_PolicyVersionsUnique ==
    \A a, b \in org_requirement_policy :
        (/\ a.org_id = b.org_id /\ a.task_type_id = b.task_type_id
         /\ a.portal_type_id = b.portal_type_id /\ a.version = b.version) => a = b

\* C16: every committed policy has a policy_type of add, remove, override
\* and at least one of required_fields, optional_fields, field_rules in its
\* field_changes.
C16_MalformedPolicyRejected ==
    \A p \in org_requirement_policy :
        /\ p.policy_type \in {"add", "remove", "override"}
        /\ DOMAIN p.field_changes
              \cap {"required_fields", "optional_fields", "field_rules"} # {}

\* C18: no INSERT, UPDATE or DELETE on a requirement table is aborted by a
\* failure of the changelog trigger.
C18_AuditNeverBlocksWrite ==
    (result.op \in {"INSERT", "UPDATE", "DELETE"} /\ result.status = "error")
        => result.error \notin {"UndefinedColumn", "InvalidTextRepresentation"}

\* C19: the changelog has exactly one entry for each committed row change, in
\* order, naming the table, the id of the row, the kind of change and the
\* previous and new values.
C19_OneEntryPerChange ==
    /\ Len(requirement_changelog) = Len(history)
    /\ \A i \in 1..Len(history) :
          LET e == requirement_changelog[i]
              c == history[i]
          IN /\ e.source_table = c.table
             /\ e.change_type = c.kind
             /\ e.source_id = PrimaryKey(IF c.kind = "DELETE" THEN c.old[1] ELSE c.new[1])
             /\ e.previous_value = c.old
             /\ e.new_value = c.new

\* C20: a policy that is inactive stays inactive.
C20_ActiveOnlyFalls ==
    [][\A p \in org_requirement_policy, q \in org_requirement_policy' :
          (p.policy_id = q.policy_id /\ ~p.active) => ~q.active]_vars

-----------------------------------------------------------------------------
(* Properties of validate_fields *)

Validated == result.op = "validate_fields" /\ result.status = "ok"

Submitted(field) == field \in DOMAIN result.submitted_fields

\* The fields the set under validation allows.
Allowed == Range(required_fields) \cup Range(optional_fields)

\* The errors reported for one field, in the order reported.
ErrorsOf(field) == SelectSeq(result.value.validation_errors, LAMBDA e : e.field = field)

\* The rule an error reports.
RuleOf(e) == CHOOSE k \in DOMAIN e : k # "field"

\* The value violates the rule.
Fails(rule, value, rules) ==
    /\ rule \in DOMAIN rules
    /\ CASE rule = "pattern" -> value.kind = "str" /\ ~re_match(rules[rule], value.value)
         [] rule = "min_length" -> value.kind = "str" /\ Len(value.value) < rules[rule]
         [] rule = "max_length" -> value.kind = "str" /\ Len(value.value) > rules[rule]
         [] OTHER -> \A i \in 1..Len(rules[rule]) : rules[rule][i] # value

\* C22: missing_required holds exactly the required fields that are absent from
\* the submission or submitted as None, in the order of required_fields.
C22_MissingRequiredExact ==
    Validated =>
        LET missing == result.value.missing_required
        IN /\ \A f \in Fields :
                 f \in Range(missing) <=>
                     /\ f \in Range(required_fields)
                     /\ ~Submitted(f) \/ result.submitted_fields[f] = PyNone
           /\ missing = SelectSeq(required_fields, LAMBDA f : f \in Range(missing))

C22_Witness ==
    /\ Validated
    /\ Len(required_fields) = 2
    /\ Submitted(required_fields[1]) /\ result.submitted_fields[required_fields[1]] = PyNone
    /\ Submitted(required_fields[2]) /\ result.submitted_fields[required_fields[2]].kind = "str"
    /\ result.value.missing_required = <<required_fields[1]>>

\* C23: the submitted keys that are neither required nor optional are reported
\* in extra_fields, and is_valid is what it is for the submission without them.
C23_ExtraFieldsNeverInvalidate ==
    Validated =>
        LET sub == result.submitted_fields
            kept == [f \in DOMAIN sub \cap Allowed |-> sub[f]]
        IN /\ Range(result.value.extra_fields) = DOMAIN sub \ Allowed
           /\ result.value.is_valid =
                 validate_fields(required_fields, optional_fields, field_rules, kept,
                                 SelectSeq(result.keys, LAMBDA f : f \in Allowed),
                                 result.items).is_valid

\* C24: is_valid is true exactly when missing_required and validation_errors
\* are both empty, and the call returns its ValidationResult.
C24_ValidIffNothingWrong ==
    result.op = "validate_fields" =>
        /\ result.status = "ok"
        /\ result.value.is_valid <=>
              result.value.missing_required = <<>> /\ result.value.validation_errors = <<>>

C24_Witness ==
    /\ Validated
    /\ result.value.extra_fields # <<>>
    /\ result.value.is_valid
    /\ field_rules # EmptyRules

\* C25: a string that begins with a match of the field's pattern and goes on
\* after it gets the pattern error.
C25_PatternMatchesWhole ==
    Validated =>
        \A f \in DOMAIN field_rules :
            (/\ Submitted(f)
             /\ "pattern" \in DOMAIN field_rules[f]
             /\ result.submitted_fields[f].kind = "str"
             /\ LET v == result.submitted_fields[f].value
                    n == Len(field_rules[f]["pattern"].chars)
                IN Len(v) > n /\ SubSeq(v, 1, n) = field_rules[f]["pattern"].chars)
                => \E i \in 1..Len(result.value.validation_errors) :
                      result.value.validation_errors[i] = Error(f, "pattern", field_rules[f])

\* C26: a string gets the min_length error exactly when it is shorter than
\* min_length and the max_length error exactly when it is longer than max_length.
C26_LengthBounds ==
    Validated =>
        \A f \in DOMAIN field_rules, rule \in {"min_length", "max_length"} :
            (Submitted(f) /\ rule \in DOMAIN field_rules[f]
                /\ result.submitted_fields[f].kind = "str")
                => LET n == Len(result.submitted_fields[f].value)
                       m == field_rules[f][rule]
                   IN (\E i \in 1..Len(ErrorsOf(f)) : RuleOf(ErrorsOf(f)[i]) = rule)
                          <=> IF rule = "min_length" THEN n < m ELSE n > m

C26_Witness ==
    /\ Validated
    /\ \E f \in DOMAIN field_rules :
          /\ {"min_length", "max_length"} \subseteq DOMAIN field_rules[f]
          /\ Submitted(f) /\ result.submitted_fields[f].kind = "str"
          /\ Len(result.submitted_fields[f].value) = field_rules[f]["min_length"]
          /\ Len(result.submitted_fields[f].value) = field_rules[f]["max_length"]
          /\ \A i \in 1..Len(ErrorsOf(f)) : RuleOf(ErrorsOf(f)[i]) \notin {"min_length", "max_length"}

\* C27: the errors of a submitted, ruled field are those of every rule its
\* value violates, in the order pattern, min_length, max_length, enum; a value
\* that is no string violates no pattern or length rule, any value can
\* violate enum.
C27_RulesInOrder ==
    Validated =>
        \A f \in DOMAIN field_rules :
            IF Submitted(f)
                THEN LET failing ==
                             SelectSeq(<<"pattern", "min_length", "max_length", "enum">>,
                                       LAMBDA rule : Fails(rule, result.submitted_fields[f],
                                                           field_rules[f]))
                     IN ErrorsOf(f) = [i \in 1..Len(failing) |->
                                          Error(f, failing[i], field_rules[f])]
                ELSE ErrorsOf(f) = <<>>

C27_Witness ==
    /\ Validated
    /\ \E f \in DOMAIN field_rules :
          /\ Submitted(f)
          /\ Len(ErrorsOf(f)) = 3

-----------------------------------------------------------------------------
(* Properties of a computed resolution *)

Computed == result.op = "_compute_requirements" /\ result.status = "ok"

\* The endpoint, the day and the rows the call in result is about.
OfPortal == Endpoint(result.portal_id)

AsOf == IF result.as_of_date = <<>> THEN today ELSE result.as_of_date[1]

Eligible ==
    {r \in payer_requirement : /\ r.portal_type_id = OfPortal.portal_type_id
                               /\ r.task_type_id = result.task_type_id
                               /\ r.effective_date <= AsOf}

Applicable ==
    {p \in org_requirement_policy :
        /\ p.active
        /\ p.org_id = OfPortal.org_id
        /\ p.task_type_id = result.task_type_id
        /\ p.portal_type_id \in {<<>>, <<OfPortal.portal_type_id>>}}

Resolved == WorkingSet(result.value.required_fields, result.value.optional_fields,
                       result.value.field_rules)

Applied(ws, p) ==
    LET out == _apply_policy(ws.required_fields, ws.optional_fields, ws.field_rules, p)
    IN WorkingSet(out[1], out[2], out[3])

BaseOf(rows) ==
    IF rows = {} THEN WorkingSet(<<>>, <<>>, EmptyRules)
    ELSE LET r == CHOOSE r \in rows : \A q \in rows : q.version <= r.version
         IN WorkingSet(r.required_fields, r.optional_fields, r.field_rules)

OverridesRequired(p) ==
    p.policy_type = "override" /\ "required_fields" \in DOMAIN p.field_changes

\* C1: right after a refresh of effective_requirements, every row of the
\* view carries the required_fields, optional_fields and field_rules that
\* _compute_requirements returns for today from the same tables.
C1_CacheEqualsComputed ==
    Refreshed =>
        \A k \in ViewKeys :
            \E v \in _compute_requirements(payer_requirement, org_requirement_policy,
                                           today, k[1], k[2], <<>>) :
                /\ effective_requirements[k].required_fields.value = v.required_fields
                /\ effective_requirements[k].optional_fields.value = v.optional_fields
                /\ effective_requirements[k].field_rules.value = v.field_rules

\* C11: get_requirements looks the key up in the view first.  A row found is
\* returned as it is, tagged "effective_requirements", and no table is
\* queried; a result tagged "computed" comes only when the view has no row of
\* the key.
C11_ViewFirst ==
    (result.op = "get_requirements" /\ result.status = "ok") =>
        LET key == <<result.portal_id, result.task_type_id>>
        IN /\ key \in DOMAIN effective_requirements =>
                /\ result.accessed = <<"effective_requirements">>
                /\ result.value.source = "effective_requirements"
                /\ result.value.required_fields = effective_requirements[key].required_fields.value
                /\ result.value.optional_fields = effective_requirements[key].optional_fields.value
                /\ result.value.field_rules = effective_requirements[key].field_rules.value
                /\ result.value.compliance_ref = effective_requirements[key].compliance_ref
           /\ result.value.source = "computed" => key \notin DOMAIN effective_requirements

\* The view's row is returned although the tables compute to another set.
C11_Witness ==
    /\ result.op = "get_requirements" /\ result.status = "ok"
    /\ <<result.portal_id, result.task_type_id>> \in DOMAIN effective_requirements
    /\ result.value.source = "effective_requirements"
    /\ result.accessed = <<"effective_requirements">>
    /\ \A v \in _compute_requirements(payer_requirement, org_requirement_policy, today,
                                       result.portal_id, result.task_type_id,
                                       result.as_of_date) :
          v.required_fields # result.value.required_fields

\* C28: the set get_requirements returns is built on the payer requirement
\* current as of the requested date (today when none is given): it carries the
\* compliance_ref of the highest version effective by then, or none when no
\* version is.
C28_BaseAsOfRequestedDate ==
    (result.op = "get_requirements" /\ result.status = "ok") =>
        result.value.compliance_ref =
            IF Eligible = {} THEN Null
            ELSE (CHOOSE r \in Eligible : \A q \in Eligible : q.version <= r.version).compliance_ref

\* C21: resolutions interleaved in any order each return what the resolution
\* returns on the same rows when run alone, and the loaded payer requirement
\* and every policy's field_changes stay as they were loaded.
C21_NoSharedState ==
    /\ \A cell \in RowCells(payer_requirement, org_requirement_policy) :
          objects[cell] = Loaded(payer_requirement, org_requirement_policy)[cell]
    /\ Computed =>
          result.value \in
              _compute_requirements(payer_requirement, org_requirement_policy, today,
                                    result.portal_id, result.task_type_id, result.as_of_date)

\* A resolution that folded two policies over a payer requirement returned
\* while the other caller was in the middle of its fold of the same policies.
C21_Witness ==
    /\ Computed
    /\ payer_requirement # {}
    /\ result.value.required_fields # <<"member_id">>
    /\ \E c \in Callers :
          /\ calls[c].pc = "fold"
          /\ calls[c].portal_id = result.portal_id
          /\ calls[c].task_type_id = result.task_type_id
          /\ Len(calls[c].policies) = 2
          /\ calls[c].folded = 1

\* The policies of the organization whose endpoint the call is about.
OwnPolicies == {p \in org_requirement_policy : p.org_id = OfPortal.org_id}

\* C30: what a resolution returns for an endpoint does not depend on the
\* policies of other organizations: computed from the tables, it is what the
\* tables without those policies compute to; served from the view, it is the
\* row the view's query gives without them.
C30_TenantIsolation ==
    /\ Computed =>
          _compute_requirements(payer_requirement, org_requirement_policy, today,
                                result.portal_id, result.task_type_id, result.as_of_date)
            = _compute_requirements(payer_requirement, OwnPolicies, today,
                                    result.portal_id, result.task_type_id, result.as_of_date)
    /\ (result.op = "get_requirements" /\ result.status = "ok") =>
          LET key == <<result.portal_id, result.task_type_id>>
          IN /\ result.value.source = "effective_requirements"
             /\ \E ord \in ViewOrders(OwnPolicies) :
                   Some(result.value) =
                       _get_from_materialized_view(ViewQuery(payer_requirement, ord, today),
                                                   result.portal_id, result.task_type_id)

\* A resolution for an endpoint of orgA on the view, while an active policy
\* of orgB for the same task type and any portal type overrides the list the
\* resolution returns.
C30_Witness ==
    /\ result.op = "get_requirements" /\ result.status = "ok"
    /\ OfPortal.org_id = "orgA"
    /\ \E p \in org_requirement_policy, q \in org_requirement_policy :
          /\ p.org_id = "orgB" /\ p.active /\ p.portal_type_id = Null
          /\ p.task_type_id = result.task_type_id
          /\ p.policy_type = "override"
          /\ p.field_changes["required_fields"] # result.value.required_fields
          /\ q.org_id = "orgA" /\ q.active /\ q.task_type_id = result.task_type_id

\* C17: when a store access that get_requirements makes fails, the call
\* raises and returns no RequirementSet: the view lookup is made by every
\* call, the endpoint, payer requirement and policy queries by a call whose
\* key the view lacks.
C17_FailurePropagates ==
    result.op = "get_requirements" =>
        LET miss == /\ schema = "alembic"
                    /\ result.fault # "effective_requirements"
                    /\ <<result.portal_id, result.task_type_id>>
                            \notin DOMAIN effective_requirements
            reached ==
                {"effective_requirements"}
                    \cup (IF miss THEN {"integration_endpoint"} ELSE {})
                    \cup (IF miss /\ result.portal_id \in PortalIds
                            /\ result.fault # "integration_endpoint"
                          THEN {"payer_requirement"} ELSE {})
                    \cup (IF miss /\ result.portal_id \in PortalIds
                            /\ result.fault \notin {"integration_endpoint", "payer_requirement"}
                          THEN {"org_requirement_policy"} ELSE {})
        IN /\ result.fault \in reached =>
                /\ result.status = "error"
                /\ "value" \notin DOMAIN result
                /\ result.accessed[Len(result.accessed)] = result.fault
           /\ (schema = "create_all" \/ (miss /\ result.portal_id \notin PortalIds)) =>
                result.status = "error"

\* The payer requirement query of a fallback fails and the call raises.
C17_Witness ==
    /\ result.op = "get_requirements"
    /\ result.fault = "payer_requirement"
    /\ result.status = "error"
    /\ result.accessed = <<"effective_requirements", "integration_endpoint",
                           "payer_requirement">>

\* C2: the applicable policies are folded in ascending version order and the
\* last one wins: two policies of different versions are applied lower
\* version first, and an override of required_fields whose version is above
\* every other applicable policy's decides the resolved required_fields.
C2_AscendingVersionLastWins ==
    Computed =>
        /\ \A p, q \in Applicable :
              (Applicable = {p, q} /\ p.version < q.version)
                  => Resolved = Applied(Applied(BaseOf(Eligible), p), q)
        /\ \A q \in Applicable :
              (OverridesRequired(q) /\ \A p \in Applicable \ {q} : p.version < q.version)
                  => result.value.required_fields = q.field_changes["required_fields"]

\* Two overrides of different required_fields apply; the higher version's is
\* the result.
C2_Witness ==
    /\ Computed
    /\ \E p, q \in Applicable :
          /\ OverridesRequired(p) /\ OverridesRequired(q)
          /\ p.version < q.version
          /\ p.field_changes["required_fields"] # q.field_changes["required_fields"]
          /\ result.value.required_fields = q.field_changes["required_fields"]

\* C8: the base of a computed resolution as of day D is the payer
\* requirement of the endpoint's portal type and of the task type that has
\* the highest version among those effective on or before D.
C8_BaseIsLatestEffective ==
    (Computed /\ Eligible # {}) =>
        \E r \in Eligible :
            /\ \A q \in Eligible : q.version <= r.version
            /\ result.value.compliance_ref = r.compliance_ref
            /\ \E ps \in OrderByVersion(Applicable) :
                  Resolved = ApplyAll(WorkingSet(r.required_fields, r.optional_fields,
                                                 r.field_rules), ps)

\* A higher version that is not yet effective is passed over for a lower,
\* effective one of another content.
C8_Witness ==
    /\ Computed
    /\ \E r \in Eligible, q \in payer_requirement :
          /\ q.portal_type_id = r.portal_type_id /\ q.task_type_id = r.task_type_id
          /\ q.version > r.version /\ q.effective_date > AsOf
          /\ q.compliance_ref # r.compliance_ref
          /\ q.required_fields # r.required_fields
          /\ result.value.compliance_ref = r.compliance_ref
          /\ Applicable = {}
          /\ result.value.required_fields = r.required_fields

\* C9: with no eligible payer requirement a computed resolution is the fold
\* of the applicable policies over empty lists and rules, has no
\* compliance_ref and source "computed"; with no policy it is empty, and a
\* sole override of required_fields gives just its list.
C9_EmptyBaseWithoutPayerRequirement ==
    (Computed /\ Eligible = {}) =>
        /\ result.value.source = "computed"
        /\ result.value.compliance_ref = <<>>
        /\ \E ps \in OrderByVersion(Applicable) :
              Resolved = ApplyAll(WorkingSet(<<>>, <<>>, EmptyRules), ps)
        /\ Applicable = {} => Resolved = WorkingSet(<<>>, <<>>, EmptyRules)
        /\ \A p \in Applicable :
              (Applicable = {p} /\ OverridesRequired(p))
                  => Resolved = WorkingSet(p.field_changes["required_fields"], <<>>,
                                           EmptyRules)

\* No payer requirement is eligible and one override applies: the result is
\* the override's list.
C9_Witness ==
    /\ Computed
    /\ Eligible = {}
    /\ \E p \in Applicable :
          /\ Applicable = {p}
          /\ OverridesRequired(p)
          /\ result.value.required_fields = <<"auth_number">>
          /\ result.value.source = "computed"

\* C10: a policy that is inactive, of another organization, of another task
\* type or of another portal type than the endpoint's does not change a
\* computed resolution: the result is one the tables without that policy
\* yield.  A policy of no portal type applies to the endpoint whatever its
\* portal type.
C10_OnlyApplicablePoliciesCount ==
    Computed =>
        /\ \A p \in org_requirement_policy \ Applicable :
              result.value \in _compute_requirements(payer_requirement,
                                                     org_requirement_policy \ {p}, today,
                                                     result.portal_id, result.task_type_id,
                                                     result.as_of_date)
        /\ \A p \in org_requirement_policy :
              (/\ p.active /\ p.org_id = OfPortal.org_id
               /\ p.task_type_id = result.task_type_id
               /\ p.portal_type_id = <<>>
               /\ OverridesRequired(p)
               /\ \A q \in Applicable \ {p} : q.version < p.version)
                  => result.value.required_fields = p.field_changes["required_fields"]

\* An inactive override sits beside an applicable policy of no portal type
\* and leaves no trace in the result.
C10_Witness ==
    /\ Computed
    /\ \E p, q \in org_requirement_policy :
          /\ ~p.active /\ p.org_id = OfPortal.org_id
          /\ p.task_type_id = result.task_type_id
          /\ p.portal_type_id \in {<<>>, <<OfPortal.portal_type_id>>}
          /\ OverridesRequired(p) /\ p.version > q.version
          /\ q \in Applicable /\ q.portal_type_id = <<>>
          /\ OverridesRequired(q)
          /\ q.field_changes["required_fields"] # p.field_changes["required_fields"]
          /\ result.value.required_fields = q.field_changes["required_fields"]

-----------------------------------------------------------------------------
(* Properties of one fold step *)

Changes == policy.field_changes

\* The elements of l at the indices in idx, in ascending index order.
AtIndices(l, idx) ==
    [k \in 1..Cardinality(idx) |->
        l[CHOOSE i \in idx : Cardinality({j \in idx : j < i}) = k - 1]]

\* The names of l that are not in present, each once, in the order of their
\* first occurrence in l.
NewNames(l, present) ==
    AtIndices(l, {i \in 1..Len(l) :
                    l[i] \notin present /\ \A j \in 1..(i - 1) : l[j] # l[i]})

\* l without the names in gone, the rest in their relative order.
Remaining(l, gone) == AtIndices(l, {i \in 1..Len(l) : l[i] \notin gone})

ChangeList(k) == IF k \in DOMAIN Changes THEN Changes[k] ELSE <<>>

\* C3: folding an override policy replaces exactly the components of the
\* working set whose key is in its field_changes, by the policy's value, and
\* leaves every other component as it was before that policy.
C3_OverrideReplacesOnlyTouchedKeys ==
    policy.policy_type = "override" =>
        /\ required_fields = IF "required_fields" \in DOMAIN Changes
                                THEN Changes["required_fields"]
                                ELSE prev.required_fields
        /\ optional_fields = IF "optional_fields" \in DOMAIN Changes
                                THEN Changes["optional_fields"]
                                ELSE prev.optional_fields
        /\ field_rules = IF "field_rules" \in DOMAIN Changes
                            THEN Changes["field_rules"].value
                            ELSE prev.field_rules

\* An override carrying only required_fields was folded over a working set
\* with optional fields and rules, and changed the required fields.
C3_Witness ==
    /\ policy.policy_type = "override"
    /\ DOMAIN Changes = {"required_fields"}
    /\ required_fields # prev.required_fields
    /\ prev.optional_fields # <<>>
    /\ DOMAIN prev.field_rules # {}
    /\ optional_fields = prev.optional_fields
    /\ field_rules = prev.field_rules

\* C4: folding an add policy yields required_fields = the prior list followed,
\* in policy order, by the policy's required names not already present;
\* optional_fields = the prior list followed by the policy's optional names
\* that are neither optional already nor required, the names this policy made
\* required included; field_rules = the prior rules with each entry of the
\* policy replacing the prior entry of the same name.
C4_AddAppendsNewNames ==
    policy.policy_type = "add" =>
        /\ required_fields =
              prev.required_fields \o
                NewNames(ChangeList("required_fields"), Range(prev.required_fields))
        /\ optional_fields =
              prev.optional_fields \o
                NewNames(ChangeList("optional_fields"),
                         Range(prev.optional_fields) \cup Range(required_fields))
        /\ DOMAIN field_rules =
              DOMAIN prev.field_rules \cup
                (IF "field_rules" \in DOMAIN Changes
                    THEN DOMAIN Changes["field_rules"].value ELSE {})
        /\ \A f \in DOMAIN field_rules :
              field_rules[f] =
                IF "field_rules" \in DOMAIN Changes
                      /\ f \in DOMAIN Changes["field_rules"].value
                   THEN Changes["field_rules"].value[f]
                   ELSE prev.field_rules[f]

\* An add policy made a name required and listed the same name as optional:
\* the name is required and did not become optional, while a rule of the
\* policy replaced a prior rule of the same field.
C4_Witness ==
    /\ policy.policy_type = "add"
    /\ DOMAIN Changes = {"required_fields", "optional_fields", "field_rules"}
    /\ \E f \in Range(Changes["optional_fields"]) :
          /\ f \in Range(Changes["required_fields"])
          /\ f \notin Range(prev.required_fields)
          /\ f \notin Range(prev.optional_fields)
          /\ f \in Range(required_fields)
          /\ f \notin Range(optional_fields)
    /\ Len(required_fields) > Len(prev.required_fields)
    /\ Len(prev.required_fields) > 0
    /\ \E f \in DOMAIN prev.field_rules \cap DOMAIN Changes["field_rules"].value :
          field_rules[f] # prev.field_rules[f]

\* C5: folding a remove policy deletes from required_fields exactly the names
\* in its required_fields, from optional_fields exactly the names in its
\* optional_fields, and from field_rules every name listed under its
\* field_rules key; every other field and rule stays, in its prior order.
C5_RemoveDeletesListedNames ==
    policy.policy_type = "remove" =>
        /\ required_fields =
              Remaining(prev.required_fields, Range(ChangeList("required_fields")))
        /\ optional_fields =
              Remaining(prev.optional_fields, Range(ChangeList("optional_fields")))
        /\ DOMAIN field_rules =
              DOMAIN prev.field_rules \
                (IF "field_rules" \in DOMAIN Changes
                    THEN IterNames(Changes["field_rules"]) ELSE {})
        /\ \A f \in DOMAIN field_rules : field_rules[f] = prev.field_rules[f]

\* A remove policy whose field_rules is a list of names took a required name,
\* an optional name and a rule away and left another of each.
C5_Witness ==
    /\ policy.policy_type = "remove"
    /\ DOMAIN Changes = {"required_fields", "optional_fields", "field_rules"}
    /\ Changes["field_rules"].kind = "list"
    /\ 0 < Len(required_fields) /\ Len(required_fields) < Len(prev.required_fields)
    /\ 0 < Len(optional_fields) /\ Len(optional_fields) < Len(prev.optional_fields)
    /\ DOMAIN field_rules # {}
    /\ DOMAIN field_rules # DOMAIN prev.field_rules
    /\ \E f \in Range(Changes["required_fields"]) : f \in DOMAIN field_rules

-----------------------------------------------------------------------------
(* Properties of a whole fold *)

OnlyFolded(t) == \A i \in 1..Len(applied) : applied[i] = t

\* C6: after folding any sequence of add policies over any base, every field
\* of the base's required_fields is in the resolved required_fields.
C6_AddIsMonotone ==
    OnlyFolded("add") => Range(base.required_fields) \subseteq Range(required_fields)

\* Two add policies were folded over a base with a required field and the
\* required list grew.
C6_Witness ==
    /\ Len(applied) >= 2
    /\ OnlyFolded("add")
    /\ base.required_fields # <<>>
    /\ Len(required_fields) > Len(base.required_fields)

\* C7: after folding any sequence of remove policies over any base, every
\* field of the resolved required_fields is in the base's required_fields.
C7_RemoveIsAntitone ==
    OnlyFolded("remove") => Range(required_fields) \subseteq Range(base.required_fields)

\* Two remove policies were folded, each took a required field away, and the
\* last one emptied the list.
C7_Witness ==
    /\ Len(applied) >= 2
    /\ OnlyFolded("remove")
    /\ Len(base.required_fields) > Len(prev.required_fields)
    /\ Len(prev.required_fields) > Len(required_fields)

\* C29: when the base's required_fields and optional_fields share no field
\* and the policy folded lists no field under both keys, the working set's
\* required_fields and optional_fields share no field after the fold.
C29_FoldKeepsDisjoint ==
    (/\ applied # <<>>
     /\ Range(base.required_fields) \cap Range(base.optional_fields) = {}
     /\ \/ {"required_fields", "optional_fields"} \ DOMAIN policy.field_changes # {}
        \/ Range(policy.field_changes["required_fields"])
              \cap Range(policy.field_changes["optional_fields"]) = {})
        => Range(required_fields) \cap Range(optional_fields) = {}

====
